---------------------------- MODULE Spec2Model ----------------------------
(***************************************************************************)
(* A model of sauce.SAUCE (src/sauce/__init__.py): the 128-byte SAUCE      *)
(* record codec, the detection of a record at the end of a file, the       *)
(* chunked reader of the file body and the writer.                         *)
(*                                                                         *)
(* Python values are tagged records: None, bytes and str (sequences of     *)
(* byte values / code points), int, tuple.  A call that raises yields      *)
(* Raise(<exception class>).                                               *)
(***************************************************************************)
EXTENDS Integers, Sequences, FiniteSets, TLC

VARIABLES
    filedata,   \* the bytes behind self.filehand (the source)
    byteorder,  \* sys.byteorder of the build: struct's native order
    filepos,    \* position of self.filehand
    _size,      \* self._size
    record,     \* self.record: None or bytes
    data,       \* self.data: the body read by _read at construction
    call,       \* the last call made on the object: [op, arg]
    out,        \* what the last call returned (or wrote), or Raise(..)
    before,     \* self.record as it was when the last call was made
    nsets       \* number of setter calls made so far

vars == <<filedata, byteorder, filepos, _size, record, data, call, out,
          before, nsets>>

---------------------------------------------------------------------------
(* Python values *)

None == [t |-> "None"]
PyBytes(s) == [t |-> "bytes", v |-> s]
PyStr(s) == [t |-> "str", v |-> s]
\* an int is kept as two limbs, hi * 65536 + lo with 0 <= lo < 65536, so
\* that 32-bit values and values beyond them can be written
PyBig(hi, lo) == [t |-> "int", hi |-> hi, lo |-> lo]
PyInt(n) == PyBig(n \div 65536, n % 65536)
\* the value of an int that is known to be small
Small(x) == x.hi * 65536 + x.lo
PyTuple(s) == [t |-> "tuple", v |-> s]
PyDate(y, m, d) == [t |-> "date", v |-> <<y, m, d>>]
PySelf == [t |-> "self"]
Raise(e) == [t |-> "raise", v |-> e]

IsRaise(x) == x.t = "raise"
IsNone(x) == x.t = "None"

Min(a, b) == IF a < b THEN a ELSE b

\* bytes/str slicing s[a:b] for 0 <= a, with Python's clamping
Slice(s, a, b) ==
    IF a >= Min(b, Len(s)) THEN <<>> ELSE SubSeq(s, a + 1, Min(b, Len(s)))

RECURSIVE Join(_)
\* b''.join(parts) for a sequence of byte sequences
Join(parts) ==
    IF parts = <<>> THEN <<>> ELSE Head(parts) \o Join(Tail(parts))

\* bytes.startswith
StartsWith(s, p) == Len(s) >= Len(p) /\ SubSeq(s, 1, Len(p)) = p

Nulls(n) == [i \in 1..n |-> 0]

\* n copies of a sequence, concatenated: seq * n
RECURSIVE Repeat(_, _)
Repeat(s, n) == IF n <= 0 THEN <<>> ELSE s \o Repeat(s, n - 1)

---------------------------------------------------------------------------
(* Text: a Python str is a sequence of code points; the tables of the     *)
(* class are written as TLA+ strings and converted with Codes.            *)

\* the printable ASCII characters 32..95 and 97..126 (96 cannot be written
\* in a TLA+ string)
AsciiLow == " !\"#$%&'()*+,-./0123456789:;<=>?@ABCDEFGHIJKLMNOPQRSTUVWXYZ[\\]^_"
AsciiHigh == "abcdefghijklmnopqrstuvwxyz{|}~"

\* ord(c) for the one-character TLA+ strings
Ord ==
    [c \in {SubSeq(AsciiLow, i, i) : i \in 1..Len(AsciiLow)}
           \cup {SubSeq(AsciiHigh, i, i) : i \in 1..Len(AsciiHigh)} |->
        IF \E i \in 1..Len(AsciiHigh) : SubSeq(AsciiHigh, i, i) = c
        THEN 96 + (CHOOSE i \in 1..Len(AsciiHigh) : SubSeq(AsciiHigh, i, i) = c)
        ELSE 31 + (CHOOSE i \in 1..Len(AsciiLow) : SubSeq(AsciiLow, i, i) = c)]

Codes(s) == [i \in 1..Len(s) |-> Ord[SubSeq(s, i, i)]]
Str(s) == PyStr(Codes(s))

\* str.encode('latin-1')
encode_latin1(s) ==
    IF \E i \in 1..Len(s.v) : s.v[i] > 255 THEN Raise("UnicodeEncodeError")
    ELSE PyBytes(s.v)

\* bytes.decode('latin-1')
decode_latin1(b) == PyStr(b.v)

IsUpper(c) == c \in 65..90
IsLower(c) == c \in 97..122
IsCased(c) == IsUpper(c) \/ IsLower(c)

\* str.lower() (ASCII letters)
lower(cs) == [i \in 1..Len(cs) |-> IF IsUpper(cs[i]) THEN cs[i] + 32 ELSE cs[i]]

\* str.title() (ASCII letters): a cased character is upper-cased when it
\* follows an uncased one (or starts the string), lower-cased otherwise
title(cs) ==
    [i \in 1..Len(cs) |->
        IF ~IsCased(cs[i]) THEN cs[i]
        ELSE IF i > 1 /\ IsCased(cs[i - 1])
             THEN (IF IsUpper(cs[i]) THEN cs[i] + 32 ELSE cs[i])
             ELSE (IF IsLower(cs[i]) THEN cs[i] - 32 ELSE cs[i])]

\* name.lower().title(): fOoBAR -> Foobar
Normalise(cs) == title(lower(cs))

\* the bytes that bytes.strip() removes: ASCII whitespace
Whitespace == {32, 9, 10, 13, 11, 12}

RECURSIVE lstrip(_, _)
lstrip(bs, chars) ==
    IF bs # <<>> /\ Head(bs) \in chars THEN lstrip(Tail(bs), chars) ELSE bs

RECURSIVE rstrip(_, _)
rstrip(bs, chars) ==
    IF bs # <<>> /\ bs[Len(bs)] \in chars
    THEN rstrip(SubSeq(bs, 1, Len(bs) - 1), chars) ELSE bs

\* bytes.strip()
strip(bs) == rstrip(lstrip(bs, Whitespace), Whitespace)

---------------------------------------------------------------------------
(* struct.pack / struct.unpack for the formats the template uses *)

DigitVal(c) ==
    CASE c = "0" -> 0 [] c = "1" -> 1 [] c = "2" -> 2 [] c = "3" -> 3
      [] c = "4" -> 4 [] c = "5" -> 5 [] c = "6" -> 6 [] c = "7" -> 7
      [] c = "8" -> 8 [] c = "9" -> 9

RECURSIVE Decimal(_)
Decimal(cs) ==
    IF cs = <<>> THEN 0
    ELSE 10 * Decimal(SubSeq(cs, 1, Len(cs) - 1)) + DigitVal(cs[Len(cs)])

\* stype[-1]
FmtCode(stype) == stype[Len(stype)]
\* the repeat count before the format character (1 when absent)
FmtCount(stype) ==
    IF Len(stype) = 1 THEN 1 ELSE Decimal(SubSeq(stype, 1, Len(stype) - 1))

\* size in bytes of one item of an integer format (native sizes; a single
\* item is not padded)
ItemSize(code) ==
    CASE code = "B" -> 1 [] code = "H" -> 2 [] code = "I" -> 4

\* the four little-endian bytes of the low 32 bits of an int
LimbBytes(x) == <<x.lo % 256, x.lo \div 256, (x.hi % 65536) % 256,
                  (x.hi % 65536) \div 256>>

Reverse(s) == [i \in 1..Len(s) |-> s[Len(s) + 1 - i]]

\* the low w bytes of an int in the given byte order
IntBytes(order, x, w) ==
    IF order = "little" THEN SubSeq(LimbBytes(x), 1, w)
    ELSE Reverse(SubSeq(LimbBytes(x), 1, w))

\* the unsigned int that four little-endian bytes hold
LimbsOf(b4) == PyBig(b4[3] + 256 * b4[4], b4[1] + 256 * b4[2])

\* the unsigned int that w <= 4 bytes hold in the given byte order
BytesInt(order, bs) ==
    LimbsOf((IF order = "little" THEN bs ELSE Reverse(bs)) \o Nulls(4 - Len(bs)))

\* 's': the bytes cut to count, or padded with null bytes to count
PackString(s, n) == [i \in 1..n |-> IF i <= Len(s) THEN s[i] ELSE 0]

\* 0 <= x < 256 ** w, the range struct accepts for an unsigned format
InRange(x, w) ==
    CASE w = 1 -> x.hi = 0 /\ x.lo < 256
      [] w = 2 -> x.hi = 0
      [] w = 4 -> x.hi >= 0 /\ x.hi < 65536

\* a pack that masks an integer to the width instead of checking its range
PackIntMasked(order, code, x) ==
    IF x.t # "int" THEN Raise("struct.error")
    ELSE PyBytes(IntBytes(order, x, ItemSize(code)))

\* an integer argument is range-checked by struct: out of range raises
PackInt(order, code, x) ==
    IF x.t # "int" THEN Raise("struct.error")
    ELSE IF ~InRange(x, ItemSize(code)) THEN Raise("struct.error")
    ELSE PyBytes(IntBytes(order, x, ItemSize(code)))

\* struct.pack for a format of n items with format character code
PackItems(order, code, n, args) ==
    CASE code = "s" ->
           IF Len(args) # 1 \/ args[1].t # "bytes"
           THEN Raise("struct.error")
           ELSE PyBytes(PackString(args[1].v, n))
      [] code = "c" ->
           IF \/ Len(args) # n
              \/ \E i \in 1..Len(args) :
                    args[i].t # "bytes" \/ Len(args[i].v) # 1
           THEN Raise("struct.error")
           ELSE PyBytes([i \in 1..n |-> args[i].v[1]])
      [] OTHER ->
           IF Len(args) # n THEN Raise("struct.error")
           ELSE PackInt(order, code, args[1])

\* struct.pack(stype, *args)
pack(order, stype, args) ==
    PackItems(order, FmtCode(stype), FmtCount(stype), args)

\* struct.calcsize(stype)
calcsize(stype) ==
    IF FmtCode(stype) \in {"s", "c"} THEN FmtCount(stype)
    ELSE FmtCount(stype) * ItemSize(FmtCode(stype))

\* struct.unpack(stype, bs): a tuple
unpack(order, stype, bs) ==
    IF Len(bs) # calcsize(stype) THEN Raise("struct.error")
    ELSE CASE FmtCode(stype) = "s" -> PyTuple(<<PyBytes(bs)>>)
           [] FmtCode(stype) = "c" ->
                PyTuple([i \in 1..Len(bs) |-> PyBytes(<<bs[i]>>)])
           [] OTHER -> PyTuple(<<BytesInt(order, bs)>>)

---------------------------------------------------------------------------
(* The class tables *)

\* SAUCE.template: (name, default, size, type); the struct format is kept
\* as its characters
template == <<
    [name |-> "SAUCE",        default |-> PyBytes(Codes("SAUCE")), size |-> 5,  stype |-> <<"5", "s">>],
    [name |-> "SAUCEVersion", default |-> PyBytes(Codes("00")),    size |-> 2,  stype |-> <<"2", "s">>],
    [name |-> "Title",        default |-> PyBytes(Nulls(35)),      size |-> 35, stype |-> <<"3", "5", "s">>],
    [name |-> "Author",       default |-> PyBytes(Nulls(20)),      size |-> 20, stype |-> <<"2", "0", "s">>],
    [name |-> "Group",        default |-> PyBytes(Nulls(20)),      size |-> 20, stype |-> <<"2", "0", "s">>],
    [name |-> "Date",         default |-> PyBytes(Nulls(8)),       size |-> 8,  stype |-> <<"8", "s">>],
    [name |-> "FileSize",     default |-> PyTuple(<<PyInt(0)>>),   size |-> 4,  stype |-> <<"I">>],
    [name |-> "DataType",     default |-> PyTuple(<<PyInt(0)>>),   size |-> 1,  stype |-> <<"B">>],
    [name |-> "FileType",     default |-> PyTuple(<<PyInt(0)>>),   size |-> 1,  stype |-> <<"B">>],
    [name |-> "TInfo1",       default |-> PyTuple(<<PyInt(0)>>),   size |-> 2,  stype |-> <<"H">>],
    [name |-> "TInfo2",       default |-> PyTuple(<<PyInt(0)>>),   size |-> 2,  stype |-> <<"H">>],
    [name |-> "TInfo3",       default |-> PyTuple(<<PyInt(0)>>),   size |-> 2,  stype |-> <<"H">>],
    [name |-> "TInfo4",       default |-> PyTuple(<<PyInt(0)>>),   size |-> 2,  stype |-> <<"H">>],
    [name |-> "Comments",     default |-> PyTuple(<<PyInt(0)>>),   size |-> 1,  stype |-> <<"B">>],
    [name |-> "Flags",        default |-> PyTuple(<<PyInt(0)>>),   size |-> 1,  stype |-> <<"B">>],
    [name |-> "Filler",       default |-> PyTuple([i \in 1..22 |-> PyBytes(<<0>>)]), size |-> 22, stype |-> <<"2", "2", "c">>] >>

\* [t[0] for t in rows]
NamesOf(rows) == [i \in 1..Len(rows) |-> rows[i].name]

\* SAUCE.templates
templates == NamesOf(template)

\* SAUCE.datatypes
datatypes == <<"None", "Character", "Graphics", "Vector", "Sound",
               "BinaryText", "XBin", "Archive", "Executable">>

\* SAUCE.filetypes: a dict keyed by datatype name; each entry is a dict
\* that holds some of the keys filetype, flags, tinfo
filetypes == [
    None |-> [t |-> "dict",
        filetype |-> <<"Undefined">> ],
    Character |-> [t |-> "dict",
        filetype |-> <<"ASCII", "ANSi", "ANSiMation", "RIP", "PCBoard",
                       "Avatar", "HTML", "Source">>,
        flags |-> (0 :> "None" @@ 1 :> "iCE Color"),
        tinfo |-> PyTuple(<<
            PyTuple(<<Str("width"), Str("height"), None, None>>),
            PyTuple(<<Str("width"), Str("height"), None, None>>),
            PyTuple(<<Str("width"), Str("height"), None, None>>),
            PyTuple(<<Str("width"), Str("height"), Str("colors"), None>>),
            PyTuple(<<Str("width"), Str("height"), None, None>>),
            PyTuple(<<Str("width"), Str("height"), None, None>>),
            PyTuple(<<None, None, None, None>>) >>) ],
    Graphics |-> [t |-> "dict",
        filetype |-> <<"GIF", "PCX", "LBM/IFF", "TGA", "FLI", "FLC",
                       "BMP", "GL", "DL", "WPG", "PNG", "JPG", "MPG",
                       "AVI">>,
        \* (('width', 'height', 'bpp')) * 14: the inner parentheses make no
        \* tuple, so this is one flat tuple of 42 strings
        tinfo |-> PyTuple(Repeat(<<Str("width"), Str("height"), Str("bpp")>>, 14)) ],
    Vector |-> [t |-> "dict",
        filetype |-> <<"DX", "DWG", "WPG", "3DS">> ],
    Sound |-> [t |-> "dict",
        filetype |-> <<"MOD", "669", "STM", "S3M", "MTM", "FAR", "ULT",
                       "AMF", "DMF", "OKT", "ROL", "CMF", "MIDI", "SADT",
                       "VOC", "WAV", "SMP8", "SMP8S", "SMP16", "SMP16S",
                       "PATCH8", "PATCH16", "XM", "HSC", "IT">>,
        \* ((None,)) * 16 + (('Sampling Rate',)) * 4: a flat tuple of 16
        \* None and 4 strings
        tinfo |-> PyTuple(Repeat(<<None>>, 16) \o Repeat(<<Str("Sampling Rate")>>, 4)) ],
    BinaryText |-> [t |-> "dict",
        flags |-> (0 :> "None" @@ 1 :> "iCE Color") ],
    XBin |-> [t |-> "dict",
        tinfo |-> PyTuple(<< PyTuple(<<Str("width"), Str("height")>>) >>) ],
    Archive |-> [t |-> "dict",
        filetype |-> <<"ZIP", "ARJ", "LZH", "ARC", "TAR", "ZOO", "RAR",
                       "UC2", "PAK", "SQZ">> ] ]

\* dict[key] for a dict with TLA+ strings as keys and a Python value as the
\* key looked up: the entry, or KeyError
Lookup(d, key) ==
    IF key.t = "str" /\ \E k \in DOMAIN d : Codes(k) = key.v
    THEN d[CHOOSE k \in DOMAIN d : Codes(k) = key.v]
    ELSE Raise("KeyError")

\* x[i] for a 0-based index i >= 0: an element of a tuple, a character of
\* a str; None is not subscriptable
Subscript(x, i) ==
    CASE x.t = "tuple" ->
            IF i < Len(x.v) THEN x.v[i + 1] ELSE Raise("IndexError")
      [] x.t = "str" ->
            IF i < Len(x.v) THEN PyStr(<<x.v[i + 1]>>) ELSE Raise("IndexError")
      [] OTHER -> Raise("TypeError")

---------------------------------------------------------------------------
(* The record codec *)

\* seq.index(x): the 0-based position of the first x, or ValueError
index(seq, x) ==
    IF \E i \in 1..Len(seq) : seq[i] = x
    THEN PyInt((CHOOSE i \in 1..Len(seq) :
                    seq[i] = x /\ \A j \in 1..(i - 1) : seq[j] # x) - 1)
    ELSE Raise("ValueError")

RECURSIVE SumSizes(_, _)
\* sum([rows[x][2] for x in range(0, n)])
SumSizes(rows, n) == IF n = 0 THEN 0 ELSE SumSizes(rows, n - 1) + rows[n].size

\* the offset of the field at 0-based position idx
Offset(idx) == SumSizes(template, idx)

\* name, default, offset, size, stype of a template row
TemplateRow(row, offset) ==
    [t |-> "tuple", name |-> row.name, default |-> row.default,
     offset |-> offset, size |-> row.size, stype |-> row.stype]

\* _template for the position index() gave
TemplateAt(idx) ==
    IF IsRaise(idx) THEN idx
    ELSE TemplateRow(template[Small(idx) + 1], Offset(Small(idx)))

\* SAUCE._template(key): name, default, offset, size, stype
_template(key) == TemplateAt(index(templates, key))

\* truth value of self.record: None and empty bytes are false
Truthy(x) == x.t # "None" /\ (x.t = "bytes" => Len(x.v) > 0)

\* one field of the default record: pack(stype, default) for 's',
\* pack(stype, *default) otherwise
DefaultField(order, row) ==
    IF FmtCode(row.stype) = "s"
    THEN pack(order, row.stype, <<row.default>>)
    ELSE pack(order, row.stype, row.default.v)

DefaultFields(order, rows) ==
    [i \in 1..Len(rows) |-> DefaultField(order, rows[i]).v]

\* a default record whose text fields are filled with spaces
DefaultRecordSpaces(order) ==
    PyBytes([i \in 1..128 |->
        IF i <= 5 THEN Codes("SAUCE")[i] ELSE IF i <= 90 THEN 32 ELSE 0])

\* the record sauce() builds when there is none: the magic, then every other
\* field packed from its default
DefaultRecord(order) ==
    PyBytes(Codes("SAUCE") \o Join(DefaultFields(order, Tail(template))))

\* SAUCE.sauce(): the raw record
sauce(rec, order) == IF Truthy(rec) THEN rec ELSE DefaultRecord(order)

\* what _gets returns for an unpacked field
GetsValue(stype, un) ==
    IF IsRaise(un) THEN un
    ELSE IF FmtCode(stype) \in {"c", "s"}
         THEN PyBytes(Join([i \in 1..Len(un.v) |-> un.v[i].v]))
    ELSE IF FmtCode(stype) \in {"B", "I"} /\ Len(stype) = 1 THEN un.v[1]
    ELSE un

GetsField(rec, order, t) ==
    IF IsRaise(t) THEN t
    ELSE GetsValue(t.stype,
                   unpack(order, t.stype,
                          Slice(rec.v, t.offset, t.offset + t.size)))

\* SAUCE._gets(key)
_gets(rec, order, key) ==
    IF IsNone(rec) THEN None ELSE GetsField(rec, order, _template(key))

\* a splice that cuts the old record one byte too late
SpliceShifted(bs, offset, size, packed) ==
    Slice(bs, 0, offset) \o packed \o Slice(bs, offset + size + 1, Len(bs))

\* b''.join([record[:offset], packed, record[offset + size:]])
Splice(bs, offset, size, packed) ==
    Slice(bs, 0, offset) \o packed \o Slice(bs, offset + size, Len(bs))

\* the new record is kept and returned
Stored(rec2) == [record |-> rec2, ret |-> rec2]

\* _puts once the record exists: the value is packed, then spliced in
PutsPacked(rec1, t, packed) ==
    IF IsRaise(packed) THEN [record |-> rec1, ret |-> packed]
    ELSE Stored(PyBytes(Splice(rec1.v, t.offset, t.size, packed.v)))

\* _puts after _template: self.record is synthesized when None, before the
\* value is packed
PutsField(rec, order, t, value) ==
    IF IsRaise(t) THEN [record |-> rec, ret |-> t]
    ELSE PutsPacked(IF IsNone(rec) THEN sauce(rec, order) ELSE rec, t,
                    pack(order, t.stype, <<value>>))

\* SAUCE._puts(key, data): the record afterwards and what the call returns
\* (the new record) or raises
_puts(rec, order, key, value) == PutsField(rec, order, _template(key), value)

---------------------------------------------------------------------------
(* Getters: pure functions of self.record *)

EmptyStr == PyStr(<<>>)

\* result.strip().decode('latin-1'), None without a record
StripDecode(result) ==
    IF IsNone(result) \/ IsRaise(result) THEN result
    ELSE decode_latin1(PyBytes(strip(result.v)))

\* result.decode('latin-1'), None without a record
Decode(result) ==
    IF IsNone(result) \/ IsRaise(result) THEN result ELSE decode_latin1(result)

get_author(rec, order) == StripDecode(_gets(rec, order, "Author"))
get_group(rec, order) == StripDecode(_gets(rec, order, "Group"))
get_title(rec, order) == StripDecode(_gets(rec, order, "Title"))
get_date(rec, order) == Decode(_gets(rec, order, "Date"))
get_version(rec, order) == Decode(_gets(rec, order, "SAUCEVersion"))

get_comments(rec, order) == _gets(rec, order, "Comments")
get_datatype(rec, order) == _gets(rec, order, "DataType")
get_filesize(rec, order) == _gets(rec, order, "FileSize")
get_filetype(rec, order) == _gets(rec, order, "FileType")
get_flags(rec, order) == _gets(rec, order, "Flags")
get_filler(rec, order) == _gets(rec, order, "Filler")

\* '' without a record, else filler.rstrip(b'\x00')
FillerStr(filler) ==
    IF IsNone(filler) THEN EmptyStr ELSE PyBytes(rstrip(filler.v, {0}))

get_filler_str(rec, order) == FillerStr(_gets(rec, order, "Filler"))

\* self.datatypes[datatype] when in range, else None
DatatypeName(datatype) ==
    IF IsNone(datatype) THEN None
    ELSE IF Small(datatype) < Len(datatypes)
         THEN Str(datatypes[Small(datatype) + 1])
    ELSE None

get_datatype_str(rec, order) == DatatypeName(get_datatype(rec, order))

\* the filetype name in the entry of the datatype
FiletypeOf(entry, filetype) ==
    IF IsRaise(entry) THEN None
    ELSE IF "filetype" \notin DOMAIN entry THEN None
    ELSE IF Small(filetype) < Len(entry.filetype)
         THEN Str(entry.filetype[Small(filetype) + 1])
    ELSE None

FiletypeName(datatype, filetype) ==
    IF IsNone(datatype) \/ IsNone(filetype) THEN None
    ELSE FiletypeOf(Lookup(filetypes, datatype), filetype)

get_filetype_str(rec, order) ==
    FiletypeName(get_datatype_str(rec, order), get_filetype(rec, order))

\* get_flags_str tests for 'flags' and then indexes the 'filetype' list,
\* which an entry with flags need not have (KeyError)
FlagsOf(entry, filetype) ==
    IF IsRaise(entry) THEN None
    ELSE IF "flags" \notin DOMAIN entry THEN None
    ELSE IF "filetype" \notin DOMAIN entry THEN Raise("KeyError")
    ELSE IF Small(filetype) < Len(entry.filetype)
         THEN Str(entry.filetype[Small(filetype) + 1])
    ELSE None

FlagsName(datatype, filetype) ==
    IF IsNone(datatype) \/ IsNone(filetype) THEN None
    ELSE FlagsOf(Lookup(filetypes, datatype), filetype)

get_flags_str(rec, order) ==
    FlagsName(get_datatype_str(rec, order), get_filetype(rec, order))

\* except (KeyError, IndexError): return ''
CatchLookup(x) ==
    IF IsRaise(x) /\ x.v \in {"KeyError", "IndexError"} THEN EmptyStr ELSE x

\* row[i - 1] for the row tinfo[filetype]
TinfoOf(row, i) ==
    IF IsRaise(row) THEN CatchLookup(row) ELSE CatchLookup(Subscript(row, i - 1))

\* self.filetypes[datatype]['tinfo'][filetype][i - 1]
TinfoCell(entry, filetype, i) ==
    IF IsRaise(entry) THEN CatchLookup(entry)
    ELSE IF "tinfo" \notin DOMAIN entry THEN EmptyStr
    ELSE TinfoOf(Subscript(entry.tinfo, Small(filetype)), i)

TinfoName(datatype, filetype, i) ==
    IF IsNone(datatype) \/ IsNone(filetype) THEN None
    ELSE TinfoCell(Lookup(filetypes, datatype), filetype, i)

\* SAUCE._get_tinfo_name(i): KeyError and IndexError give '', any other
\* error propagates
_get_tinfo_name(rec, order, i) ==
    TinfoName(get_datatype_str(rec, order), get_filetype(rec, order), i)

get_tinfo1_name(rec, order) == _get_tinfo_name(rec, order, 1)
get_tinfo2_name(rec, order) == _get_tinfo_name(rec, order, 2)
get_tinfo3_name(rec, order) == _get_tinfo_name(rec, order, 3)
get_tinfo4_name(rec, order) == _get_tinfo_name(rec, order, 4)

\* self._gets('TInfoN')[0]
First(result) == IF IsRaise(result) THEN result ELSE Subscript(result, 0)

get_tinfo1(rec, order) == First(_gets(rec, order, "TInfo1"))
get_tinfo2(rec, order) == First(_gets(rec, order, "TInfo2"))
get_tinfo3(rec, order) == First(_gets(rec, order, "TInfo3"))
get_tinfo4(rec, order) == First(_gets(rec, order, "TInfo4"))

\* the read side of the class's properties
Properties == {"author", "comments", "datatype", "datatype_str", "date",
               "filesize", "filetype", "filetype_str", "filler",
               "filler_str", "flags", "flags_str", "group", "tinfo1",
               "tinfo1_name", "tinfo2", "tinfo2_name", "tinfo3",
               "tinfo3_name", "tinfo4", "tinfo4_name", "title", "version"}

getattr(rec, order, name) ==
    CASE name = "author" -> get_author(rec, order)
      [] name = "comments" -> get_comments(rec, order)
      [] name = "datatype" -> get_datatype(rec, order)
      [] name = "datatype_str" -> get_datatype_str(rec, order)
      [] name = "date" -> get_date(rec, order)
      [] name = "filesize" -> get_filesize(rec, order)
      [] name = "filetype" -> get_filetype(rec, order)
      [] name = "filetype_str" -> get_filetype_str(rec, order)
      [] name = "filler" -> get_filler(rec, order)
      [] name = "filler_str" -> get_filler_str(rec, order)
      [] name = "flags" -> get_flags(rec, order)
      [] name = "flags_str" -> get_flags_str(rec, order)
      [] name = "group" -> get_group(rec, order)
      [] name = "tinfo1" -> get_tinfo1(rec, order)
      [] name = "tinfo1_name" -> get_tinfo1_name(rec, order)
      [] name = "tinfo2" -> get_tinfo2(rec, order)
      [] name = "tinfo2_name" -> get_tinfo2_name(rec, order)
      [] name = "tinfo3" -> get_tinfo3(rec, order)
      [] name = "tinfo3_name" -> get_tinfo3_name(rec, order)
      [] name = "tinfo4" -> get_tinfo4(rec, order)
      [] name = "tinfo4_name" -> get_tinfo4_name(rec, order)
      [] name = "title" -> get_title(rec, order)
      [] name = "version" -> get_version(rec, order)

---------------------------------------------------------------------------
(* Setters: the record afterwards and what the call returns or raises *)

\* the value a setter returns once _puts has returned
Returning(res, value) ==
    IF IsRaise(res.ret) THEN res ELSE [record |-> res.record, ret |-> value]

\* self._puts(key, x); return self -- for an x whose conversion may have
\* raised before _puts was reached
PutsConverted(rec, order, key, x) ==
    IF IsRaise(x) THEN [record |-> rec, ret |-> x]
    ELSE Returning(_puts(rec, order, key, x), PySelf)

\* if isinstance(x, str): x = x.encode('latin-1')
Encoded(x) == IF x.t = "str" THEN encode_latin1(x) ELSE x

set_author(rec, order, author) ==
    PutsConverted(rec, order, "Author", Encoded(author))
set_group(rec, order, group) ==
    PutsConverted(rec, order, "Group", Encoded(group))
set_title(rec, order, text) ==
    PutsConverted(rec, order, "Title", Encoded(text))
set_version(rec, order, version) ==
    PutsConverted(rec, order, "SAUCEVersion", Encoded(version))

set_comments(rec, order, comments) ==
    Returning(_puts(rec, order, "Comments", comments), PySelf)
set_flags(rec, order, flags) ==
    Returning(_puts(rec, order, "Flags", flags), PySelf)
set_tinfo1(rec, order, tinfo) ==
    Returning(_puts(rec, order, "TInfo1", tinfo), PySelf)
set_tinfo2(rec, order, tinfo) ==
    Returning(_puts(rec, order, "TInfo2", tinfo), PySelf)
set_tinfo3(rec, order, tinfo) ==
    Returning(_puts(rec, order, "TInfo3", tinfo), PySelf)
set_tinfo4(rec, order, tinfo) ==
    Returning(_puts(rec, order, "TInfo4", tinfo), PySelf)

\* set_filesize has no return statement
set_filesize(rec, order, size) ==
    Returning(_puts(rec, order, "FileSize", size), None)

CodesOf(names) == [i \in 1..Len(names) |-> Codes(names[i])]

\* a str is normalised and looked up in datatypes
DatatypeCode(datatype) ==
    IF datatype.t = "str"
    THEN index(CodesOf(datatypes), Normalise(datatype.v))
    ELSE datatype

set_datatype(rec, order, datatype) ==
    PutsConverted(rec, order, "DataType", DatatypeCode(datatype))

NormalisedOf(names) == [i \in 1..Len(names) |-> Normalise(Codes(names[i]))]

\* [name.lower().title() for name in entry['filetype']].index(filetype)
FiletypeIndex(entry, filetype) ==
    IF IsRaise(entry) THEN entry
    ELSE IF "filetype" \notin DOMAIN entry THEN Raise("KeyError")
    ELSE index(NormalisedOf(entry.filetype), Normalise(filetype.v))

\* a str is normalised and looked up in the filetype names of the current
\* datatype
FiletypeCode(datatype, filetype) ==
    IF filetype.t = "str"
    THEN FiletypeIndex(Lookup(filetypes, datatype), filetype)
    ELSE filetype

set_filetype(rec, order, filetype) ==
    PutsConverted(rec, order, "FileType",
                  FiletypeCode(get_datatype_str(rec, order), filetype))

\* the decimal digits of n, zero-padded to width w, as code points
Digits(n, w) == [i \in 1..w |-> 48 + ((n \div (10 ^ (w - i))) % 10)]

\* date.strftime('%Y%m%d') for a year of four digits
strftime(d) == PyStr(Digits(d.v[1], 4) \o Digits(d.v[2], 2) \o Digits(d.v[3], 2))

\* year, month, day from the day of the 400-year era (a year starting in
\* March)
CivilOfEra(era, doe, yoe) ==
    LET doy == doe - (365 * yoe + yoe \div 4 - yoe \div 100)
        mp == (5 * doy + 2) \div 153
        m == IF mp < 10 THEN mp + 3 ELSE mp - 9
    IN  PyDate(yoe + era * 400 + (IF m <= 2 THEN 1 ELSE 0), m,
               doy - (153 * mp + 2) \div 5 + 1)

CivilOfShifted(z, era) ==
    CivilOfEra(era, z - era * 146097,
               ((z - era * 146097) - (z - era * 146097) \div 1460
                + (z - era * 146097) \div 36524
                - (z - era * 146097) \div 146096) \div 365)

\* the civil date of a day number counted from 1970-01-01
CivilFromDays(days) == CivilOfShifted(days + 719468, (days + 719468) \div 146097)

\* datetime.datetime.fromtimestamp(ts): local time, utcoffset seconds
\* east of UTC
fromtimestamp(ts, utcoffset) ==
    CivilFromDays(ts \div 86400 + ((ts % 86400) + utcoffset) \div 86400)

\* the date argument as set_date formats it; now is the clock's date,
\* utcoffset the local timezone
DateText(date, now, utcoffset) ==
    CASE date.t = "None" -> strftime(now)
      [] date.t = "date" -> strftime(date)
      [] date.t = "int" -> strftime(fromtimestamp(Small(date), utcoffset))
      [] OTHER -> date

\* set_date(date, format='%Y%m%d')
set_date(rec, order, date, now, utcoffset) ==
    PutsConverted(rec, order, "Date", Encoded(DateText(date, now, utcoffset)))

---------------------------------------------------------------------------
(* The file: detection of the record and the chunked reader *)

\* self.filehand.read(n) at position pos
FileRead(fdata, pos, n) == Slice(fdata, pos, pos + n)

NoRecord(fdata) ==
    [record |-> None, data |-> PyBytes(fdata), pos |-> Len(fdata)]

\* the last 128 bytes are a record when they start with the magic
ReadRecord(fdata, size, tail) ==
    IF StartsWith(tail, Codes("SAUCE"))
    THEN [record |-> PyBytes(tail),
          data |-> PyBytes(FileRead(fdata, 0, size - 128)),
          pos |-> size - 128]
    ELSE NoRecord(fdata)

\* a detection that needs more than 128 bytes
_read_strict(fdata, size) ==
    IF size > 128
    THEN ReadRecord(fdata, size, FileRead(fdata, size - 128, 128))
    ELSE NoRecord(fdata)

\* SAUCE._read(): record, data and the position the file is left at
_read(fdata, size) ==
    IF size >= 128
    THEN ReadRecord(fdata, size, FileRead(fdata, size - 128, 128))
    ELSE NoRecord(fdata)

RECURSIVE ReadChunks(_, _, _)
\* for x in range(0, reads): yield self.filehand.read(1024)
ReadChunks(fdata, pos, reads) ==
    IF reads <= 0 THEN <<>>
    ELSE <<FileRead(fdata, pos, 1024)>>
         \o ReadChunks(fdata, Min(pos + 1024, Len(fdata)), reads - 1)

\* if rest: yield self.filehand.read(rest)
WithRest(fdata, full, pos, rest) ==
    IF rest # 0
    THEN [chunks |-> full \o <<FileRead(fdata, pos, rest)>>,
          pos |-> Min(pos + rest, Len(fdata))]
    ELSE [chunks |-> full, pos |-> pos]

Chunked(fdata, reads, rest) ==
    WithRest(fdata, ReadChunks(fdata, 0, reads),
             IF reads <= 0 THEN 0 ELSE Min(1024 * reads, Len(fdata)), rest)

\* the length _read_file reads: self._size less 128 when self.record is set
BodyLength(size, rec) == IF Truthy(rec) THEN size - 128 ELSE size

\* SAUCE._read_file(), run to its end: the chunks yielded and the position
\* the file is left at; reads, rest = divmod(length, 1024)
_read_file(fdata, size, rec) ==
    Chunked(fdata, BodyLength(size, rec) \div 1024, BodyLength(size, rec) % 1024)

Joined(r) == [value |-> PyBytes(Join(r.chunks)), pos |-> r.pos]

JoinedWith(r, rec) ==
    [value |-> PyBytes(Join(r.chunks) \o (IF Truthy(rec) THEN rec.v ELSE Nulls(128))),
     pos |-> r.pos]

\* a __bytes__ that appends a record to the body
bytes_with_record(fdata, size, rec) ==
    JoinedWith(_read_file(fdata, size, rec), rec)

\* SAUCE.__bytes__(): b''.join(list(self._read_file()))
__bytes__(fdata, size, rec) == Joined(_read_file(fdata, size, rec))

Written(r, s) == [written |-> Join(r.chunks) \o s.v, pos |-> r.pos]

\* a write that appends a record only when the object holds one
write_existing_only(fdata, size, rec, order) ==
    Written(_read_file(fdata, size, rec),
            IF Truthy(rec) THEN rec ELSE PyBytes(<<>>))

\* SAUCE.write(filename): what is written to the destination (a file other
\* than the source) and the position the source is left at
write(fdata, size, rec, order) ==
    Written(_read_file(fdata, size, rec), sauce(rec, order))

---------------------------------------------------------------------------
(* Sources *)

\* body bytes: a pattern that never holds the magic
Body(n) == [i \in 1..n |-> (7 * i) % 251]

Spaces(n) == [i \in 1..n |-> 32]

\* a record as other SAUCE tools write it: text padded with spaces,
\* little-endian integers; Character/ANSi, 80 x 25, iCE colour
SampleRecord ==
    Codes("SAUCE00")
    \o Codes("Old title") \o Spaces(26)
    \o Codes("maze") \o Spaces(16)
    \o Codes("mononoke") \o Spaces(12)
    \o Codes("20120131")
    \o <<11, 0, 0, 0>> \o <<1>> \o <<1>>
    \o <<80, 0>> \o <<25, 0>> \o <<0, 0>> \o <<0, 0>>
    \o <<0>> \o <<1>> \o Nulls(22)

\* the file contents of a source of n bytes
Source(kind, n) ==
    CASE kind = "plain" -> Body(n)
      [] kind = "record" -> Body(n - 128) \o SampleRecord
      [] kind = "magic_first" -> Codes("SAUCE") \o Body(n - 5)
      [] kind = "magic_late" ->
            Body(n - 128) \o <<0>> \o SubSeq(SampleRecord, 1, 127)
      [] kind = "magic_lower" ->
            Body(n - 128) \o Codes("sauce") \o SubSeq(SampleRecord, 6, 128)

ByteOrders == {"little", "big"}

ConstructedFrom(fdata, order, r) ==
    /\ filedata = fdata
    /\ byteorder = order
    /\ _size = Len(fdata)
    /\ record = r.record
    /\ data = r.data
    /\ filepos = r.pos
    /\ call = [op |-> "__init__", arg |-> None]
    /\ out = None
    /\ before = None
    /\ nsets = 0

\* the object after SAUCE.__init__ on a source
Constructed(fdata, order) ==
    ConstructedFrom(fdata, order, _read(fdata, Len(fdata)))

---------------------------------------------------------------------------
(* Operations *)

\* a call that leaves the file alone: the record and the result it yields
Calls(op, arg, res) ==
    /\ record' = res.record
    /\ out' = res.ret
    /\ call' = [op |-> op, arg |-> arg]
    /\ before' = record
    /\ UNCHANGED <<filedata, byteorder, filepos, _size, data>>

SetAuthor(v) == Calls("set_author", v, set_author(record, byteorder, v))
SetGroup(v) == Calls("set_group", v, set_group(record, byteorder, v))
SetTitle(v) == Calls("set_title", v, set_title(record, byteorder, v))
SetVersion(v) == Calls("set_version", v, set_version(record, byteorder, v))
SetComments(v) == Calls("set_comments", v, set_comments(record, byteorder, v))
SetFlags(v) == Calls("set_flags", v, set_flags(record, byteorder, v))
SetTinfo1(v) == Calls("set_tinfo1", v, set_tinfo1(record, byteorder, v))
SetTinfo2(v) == Calls("set_tinfo2", v, set_tinfo2(record, byteorder, v))
SetTinfo3(v) == Calls("set_tinfo3", v, set_tinfo3(record, byteorder, v))
SetTinfo4(v) == Calls("set_tinfo4", v, set_tinfo4(record, byteorder, v))
SetFilesize(v) == Calls("set_filesize", v, set_filesize(record, byteorder, v))
SetDatatype(v) == Calls("set_datatype", v, set_datatype(record, byteorder, v))
SetFiletype(v) == Calls("set_filetype", v, set_filetype(record, byteorder, v))
SetDate(v, now, utcoffset) ==
    Calls("set_date", v, set_date(record, byteorder, v, now, utcoffset))

\* a direct call of _puts(key, value)
Puts(key, v) ==
    Calls("_puts", [t |-> "item", key |-> key, v |-> v],
          _puts(record, byteorder, key, v))

\* reading a property
Get(name) ==
    Calls("get", [t |-> "name", v |-> name],
          [record |-> record, ret |-> getattr(record, byteorder, name)])

\* sauce()
Sauce ==
    Calls("sauce", None, [record |-> record, ret |-> sauce(record, byteorder)])

\* a call that reads the file: what it yields and where it leaves the file
Reads(op, value, pos) ==
    /\ out' = value
    /\ filepos' = pos
    /\ call' = [op |-> op, arg |-> None]
    /\ before' = record
    /\ UNCHANGED <<filedata, byteorder, _size, record, data>>

ReadsChunks(r) ==
    Reads("_read_file",
          PyTuple([i \in 1..Len(r.chunks) |-> PyBytes(r.chunks[i])]), r.pos)

\* list(self._read_file()): the body chunks
ReadFile == ReadsChunks(_read_file(filedata, _size, record))

ReadsBytes(r) == Reads("__bytes__", r.value, r.pos)

\* bytes(self)
ToBytes == ReadsBytes(__bytes__(filedata, _size, record))

ReadsWritten(r) == Reads("write", PyBytes(r.written), r.pos)

\* write(destination): out is what the destination holds afterwards
Write == ReadsWritten(write(filedata, _size, record, byteorder))

---------------------------------------------------------------------------
(* The document specification: sources of every size around 128 and around *)
(* the chunk size 1024, with and without a record; the reading operations  *)
(* and two setters, one that succeeds and one that can fail                *)

DocSources ==
    {<<"plain", n>> : n \in {0, 11, 127, 128, 129, 200, 1023, 1024, 1025, 2049}}
    \cup {<<"record", n>> : n \in {128, 139, 1152, 1153}}
    \cup {<<"magic_first", n>> : n \in {127, 128}}
    \cup {<<"magic_late", n>> : n \in {200}}
    \cup {<<"magic_lower", n>> : n \in {128}}

DocTitles == {Str("Demo")}
DocFlags == {PyInt(1), PyInt(256)}

Init == \E s \in DocSources, order \in ByteOrders :
            Constructed(Source(s[1], s[2]), order)

Next ==
    \/ \E v \in DocTitles : SetTitle(v) /\ UNCHANGED nsets
    \/ \E v \in DocFlags : SetFlags(v) /\ UNCHANGED nsets
    \/ \E name \in Properties : Get(name) /\ UNCHANGED nsets
    \/ Sauce /\ UNCHANGED nsets
    \/ ReadFile /\ UNCHANGED nsets
    \/ ToBytes /\ UNCHANGED nsets
    \/ Write /\ UNCHANGED nsets

Spec == Init /\ [][Next]_vars

---------------------------------------------------------------------------
(* The codec specification: short sources, every setter and _puts itself   *)
(* with values inside and outside each field, a bounded number of calls    *)

MaxPuts == 2

CodecSources == {<<"plain", 11>>, <<"record", 139>>}

Long40 == Str("ABCDEFGHIJKLMNOPQRSTUVWXYZabcdefghijklmn")

TitleValues == {Str("Demo"), Long40, Str("  ab  "), PyStr(<<8364>>), PyInt(5)}
AuthorValues == {Str("Tester"), Long40}
GroupValues == {Str("mononoke"), Long40}
VersionValues == {PyBytes(Codes("01"))}
DateValues == {None, PyDate(2024, 12, 25), PyInt(1234567890), Str("20120131")}
Clock == {PyDate(2026, 11, 2)}
UtcOffsets == {0, 3600}
CommentsValues == {PyInt(5), PyInt(256)}
FlagsValues == {PyInt(1), PyInt(255), PyInt(256), PyInt(-1)}
FilesizeValues == {PyInt(11), PyBig(65535, 65535), PyBig(65536, 0), PyInt(-1)}
DatatypeValues ==
    {PyInt(1), PyInt(9), Str("cHaracter"), Str("binarytext"), Str("nosuch")}
FiletypeValues == {PyInt(1), Str("ansi"), Str("zzz")}
Tinfo1Values == {PyInt(80), PyInt(65535), PyBig(1, 0), Str("x")}
Tinfo2Values == {PyInt(25), PyBig(1, 0)}
Tinfo3Values == {PyInt(16)}
Tinfo4Values == {PyInt(8)}
PutsValues == {<<"Nope", PyInt(1)>>, <<"Filler", PyBytes(<<120>>)>>}

CodecInit == \E s \in CodecSources, order \in ByteOrders :
                 Constructed(Source(s[1], s[2]), order)

\* one more call, while the bound allows
Counted == nsets < MaxPuts /\ nsets' = nsets + 1

CodecNext ==
    \/ \E v \in TitleValues : Counted /\ SetTitle(v)
    \/ \E v \in AuthorValues : Counted /\ SetAuthor(v)
    \/ \E v \in GroupValues : Counted /\ SetGroup(v)
    \/ \E v \in VersionValues : Counted /\ SetVersion(v)
    \/ \E v \in DateValues, now \in Clock, utcoffset \in UtcOffsets :
          Counted /\ SetDate(v, now, utcoffset)
    \/ \E v \in CommentsValues : Counted /\ SetComments(v)
    \/ \E v \in FlagsValues : Counted /\ SetFlags(v)
    \/ \E v \in FilesizeValues : Counted /\ SetFilesize(v)
    \/ \E v \in DatatypeValues : Counted /\ SetDatatype(v)
    \/ \E v \in FiletypeValues : Counted /\ SetFiletype(v)
    \/ \E v \in Tinfo1Values : Counted /\ SetTinfo1(v)
    \/ \E v \in Tinfo2Values : Counted /\ SetTinfo2(v)
    \/ \E v \in Tinfo3Values : Counted /\ SetTinfo3(v)
    \/ \E v \in Tinfo4Values : Counted /\ SetTinfo4(v)
    \/ \E p \in PutsValues : Counted /\ Puts(p[1], p[2])
    \/ \E name \in Properties : Counted /\ Get(name)

CodecSpec == CodecInit /\ [][CodecNext]_vars

---------------------------------------------------------------------------
(* The lookup specification: a source whose record holds every datatype    *)
(* and filetype code up to a bound; the semantic lookups                   *)

MaxDataTypeCode == 9
MaxFileTypeCode == 43

\* the sample record with its DataType and FileType bytes replaced
TypedRecord(d, f) ==
    SubSeq(SampleRecord, 1, 94) \o <<d, f>> \o SubSeq(SampleRecord, 97, 128)

SemanticProperties ==
    {"datatype_str", "filetype_str", "flags_str", "tinfo1_name",
     "tinfo2_name", "tinfo3_name", "tinfo4_name"}

TinfoInit ==
    \E d \in 0..MaxDataTypeCode, f \in 0..MaxFileTypeCode, order \in ByteOrders :
        Constructed(Body(11) \o TypedRecord(d, f), order)

TinfoNext ==
    \/ \E name \in SemanticProperties : Get(name) /\ UNCHANGED nsets
    \/ \E name \in {"datatype", "filetype"} : Get(name) /\ UNCHANGED nsets

TinfoSpec == TinfoInit /\ [][TinfoNext]_vars

---------------------------------------------------------------------------
(* Properties *)

\* the record the format defines as blank: magic, version "00", zeros
BlankRecord == Codes("SAUCE00") \o Nulls(121)

\* first and last byte (counted from 1) of the field each setter writes
FieldRange ==
    [set_version |-> <<6, 7>>, set_title |-> <<8, 42>>,
     set_author |-> <<43, 62>>, set_group |-> <<63, 82>>,
     set_date |-> <<83, 90>>, set_filesize |-> <<91, 94>>,
     set_datatype |-> <<95, 95>>, set_filetype |-> <<96, 96>>,
     set_tinfo1 |-> <<97, 98>>, set_tinfo2 |-> <<99, 100>>,
     set_tinfo3 |-> <<101, 102>>, set_tinfo4 |-> <<103, 104>>,
     set_comments |-> <<105, 105>>, set_flags |-> <<106, 106>>]

SetterOps == DOMAIN FieldRange

ReadOps == {"get", "sauce", "_read_file", "__bytes__", "write"}

\* a source of at least 128 bytes whose last 128 bytes start with the magic
Detected(fdata) ==
    /\ Len(fdata) >= 128
    /\ SubSeq(fdata, Len(fdata) - 127, Len(fdata) - 123) = <<83, 65, 85, 67, 69>>

\* C1: after construction the document has a record exactly when the source
\* has at least 128 bytes and its last 128 bytes start with "SAUCE"; the
\* record is then those 128 bytes and the body the bytes before them;
\* otherwise there is no record and the body is the whole source.
C1_Detection ==
    /\ call.op = "__init__" =>
          IF Detected(filedata)
          THEN record = PyBytes(SubSeq(filedata, Len(filedata) - 127, Len(filedata)))
          ELSE record = None
    /\ data = PyBytes(IF Detected(filedata)
                      THEN SubSeq(filedata, 1, Len(filedata) - 128)
                      ELSE filedata)

\* C1: a source of exactly 128 bytes that is nothing but a record
C1_Witness ==
    /\ call.op = "__init__"
    /\ Len(filedata) = 128
    /\ record = PyBytes(filedata)
    /\ data = PyBytes(<<>>)

\* the bytes of a tuple of chunks, joined
ChunksJoined(chunks) == Join([i \in 1..Len(chunks.v) |-> chunks.v[i].v])

\* C2: whenever _read_file has run, the concatenation of its chunks is the
\* body fixed at construction (self.data), whatever setters ran before.
C2_BodyChunks ==
    call.op = "_read_file" => ChunksJoined(out) = data.v

\* C3: after a successful setter the record is 128 bytes long and every
\* byte outside the field the setter writes is the byte the record had
\* before the call (the blank record when there was none).
C3_Isolation ==
    (call.op \in SetterOps /\ ~IsRaise(out)) =>
        /\ record.t = "bytes"
        /\ Len(record.v) = 128
        /\ \A i \in 1..128 :
              (i < FieldRange[call.op][1] \/ i > FieldRange[call.op][2]) =>
                  record.v[i] = (IF before = None THEN BlankRecord ELSE before.v)[i]

\* C3: the author is set after the title; the title set earlier is intact
C3_Witness ==
    /\ call.op = "set_author"
    /\ ~IsRaise(out)
    /\ before # None
    /\ before.v # record.v
    /\ SubSeq(before.v, 8, 42) = <<68, 101, 109, 111>> \o Nulls(31)
    /\ SubSeq(record.v, 8, 42) = <<68, 101, 109, 111>> \o Nulls(31)
    /\ SubSeq(record.v, 43, 48) = <<84, 101, 115, 116, 101, 114>>

\* C4: write emits the chunks of _read_file in order and then the record:
\* the record the document holds, or the blank record when it holds none;
\* so the output always ends in a 128-byte record, and the document's
\* record is what it was before the call.
C4_Write ==
    call.op = "write" =>
        /\ out = PyBytes(Join(_read_file(filedata, _size, record).chunks)
                         \o (IF record = None THEN BlankRecord ELSE record.v))
        /\ Len(out.v) >= 128
        /\ SubSeq(out.v, Len(out.v) - 127, Len(out.v) - 123) = <<83, 65, 85, 67, 69>>
        /\ record = before

\* C4: a source of 1025 bytes without a record is written as its two
\* chunks followed by the blank record, and still has no record
C4_Witness ==
    /\ call.op = "write"
    /\ record = None
    /\ Len(filedata) = 1025
    /\ out = PyBytes(filedata \o BlankRecord)

\* C5 as stated: whenever __bytes__ has run its result is the body and a
\* 128-byte record, len(bytes) = L + 128 for the body length L.
C5_Original ==
    call.op = "__bytes__" => Len(out.v) = Len(data.v) + 128

\* C5: __bytes__ returns what _read_file yields and appends no record: a
\* prefix of the source, the body itself (length L) while the document has
\* no record, when its record was detected in the source, or when the
\* source is shorter than 128 bytes; and L - 128 bytes when the record was
\* synthesized by a setter on a source of at least 128 bytes.
C5_BodyOnly ==
    call.op = "__bytes__" =>
        /\ out.t = "bytes"
        /\ out.v = SubSeq(filedata, 1, Len(out.v))
        /\ Len(out.v) =
              IF record # None /\ ~Detected(filedata) /\ Len(filedata) >= 128
              THEN Len(data.v) - 128
              ELSE Len(data.v)

\* C5: bytes() of a 200-byte source without a record is those 200 bytes
C5_Witness ==
    /\ call.op = "__bytes__"
    /\ record = None
    /\ Len(filedata) = 200
    /\ out = PyBytes(filedata)

\* C6: whenever a setter (or _puts itself) has raised, the record is what
\* it was before the call.
C6_Atomic ==
    (call.op \in SetterOps \cup {"_puts"} /\ IsRaise(out)) => record = before

\* the bytes a setter of the document specification stores in its field
StoredField(c) ==
    IF c.arg.t = "str"
    THEN PackString(c.arg.v, FieldRange[c.op][2] - FieldRange[c.op][1] + 1)
    ELSE <<c.arg.lo>>

\* the blank record with one field replaced
BlankWith(range, field) ==
    SubSeq(BlankRecord, 1, range[1] - 1) \o field
    \o SubSeq(BlankRecord, range[2] + 1, 128)

\* C7: a document without a record keeps none across getters, _read_file,
\* sauce(), bytes() and write; a successful setter on a document without a
\* record leaves the blank record with only that field replaced; a
\* document that has a record never loses it.
C7_Presence ==
    [][/\ call'.op \in ReadOps => record' = record
       /\ (record = None /\ call'.op \in SetterOps /\ ~IsRaise(out')) =>
             record' = PyBytes(BlankWith(FieldRange[call'.op], StoredField(call')))
       /\ record # None => record' # None]_vars

\* C7: the first setter on a document without a record: title "Demo"
C7_Witness ==
    /\ call.op = "set_title"
    /\ before = None
    /\ ~IsRaise(out)
    /\ record = PyBytes(<<83, 65, 85, 67, 69, 48, 48, 68, 101, 109, 111>>
                        \o Nulls(117))

TextWidth == [set_title |-> 35, set_author |-> 20, set_group |-> 20]

TextProperty == [set_title |-> "title", set_author |-> "author", set_group |-> "group"]

\* C8: after a text setter was given a str v, the field holds the first
\* width bytes of v padded with null bytes, and the getter returns v cut to
\* the width with its trailing null and space padding stripped.
C8_RoundTrip ==
    (call.op \in DOMAIN TextWidth /\ call.arg.t = "str" /\ ~IsRaise(out)) =>
        /\ SubSeq(record.v, FieldRange[call.op][1], FieldRange[call.op][2])
              = PackString(call.arg.v, TextWidth[call.op])
        /\ getattr(record, byteorder, TextProperty[call.op])
              = PyStr(rstrip(SubSeq(call.arg.v, 1,
                                    Min(Len(call.arg.v), TextWidth[call.op])),
                             {0, 32}))

NumericWidth ==
    [set_filesize |-> 4, set_datatype |-> 1, set_filetype |-> 1,
     set_comments |-> 1, set_flags |-> 1, set_tinfo1 |-> 2,
     set_tinfo2 |-> 2, set_tinfo3 |-> 2, set_tinfo4 |-> 2]

NumericProperty ==
    [set_filesize |-> "filesize", set_datatype |-> "datatype",
     set_filetype |-> "filetype", set_comments |-> "comments",
     set_flags |-> "flags", set_tinfo1 |-> "tinfo1", set_tinfo2 |-> "tinfo2",
     set_tinfo3 |-> "tinfo3", set_tinfo4 |-> "tinfo4"]

\* x mod 2^(8w)
Masked(x, w) ==
    CASE w = 1 -> PyBig(0, x.lo % 256)
      [] w = 2 -> PyBig(0, x.lo)
      [] w = 4 -> PyBig(x.hi % 65536, x.lo)

\* 0 <= x < 2^(8w)
Fits(x, w) ==
    /\ x.hi >= 0
    /\ w = 4 => x.hi < 65536
    /\ w = 2 => x.hi = 0
    /\ w = 1 => (x.hi = 0 /\ x.lo < 256)

\* C9 as stated: a numeric setter given any integer x does not raise, and
\* the getter then returns x mod 2^(8w).
C9_Original ==
    (call.op \in DOMAIN NumericWidth /\ call.arg.t = "int") =>
        /\ ~IsRaise(out)
        /\ getattr(record, byteorder, NumericProperty[call.op])
              = Masked(call.arg, NumericWidth[call.op])

\* C9: a numeric setter given an integer x with 0 <= x < 2^(8w) does not
\* raise and the getter then returns x; given any other integer it raises
\* struct.error, and nothing is masked.
C9_RangeChecked ==
    (call.op \in DOMAIN NumericWidth /\ call.arg.t = "int") =>
        IF Fits(call.arg, NumericWidth[call.op])
        THEN /\ ~IsRaise(out)
             /\ getattr(record, byteorder, NumericProperty[call.op]) = call.arg
        ELSE out = Raise("struct.error")

\* C9: tinfo1 = 65536 is refused
C9_Witness ==
    /\ call.op = "set_tinfo1"
    /\ call.arg = PyBig(1, 0)
    /\ out = Raise("struct.error")

TinfoSlot ==
    [tinfo1_name |-> 1, tinfo2_name |-> 2, tinfo3_name |-> 3, tinfo4_name |-> 4]

\* the label the tables define for Graphics (2), Sound (4) and XBin (6)
TableLabel(d, f, slot) ==
    CASE d = 2 /\ f <= 13 ->
           IF slot <= 3 THEN Str(<<"width", "height", "bpp">>[slot]) ELSE Str("")
      [] d = 4 /\ f <= 15 -> Str("")
      [] d = 4 /\ f >= 16 /\ f <= 19 ->
           IF slot = 1 THEN Str("Sampling Rate") ELSE Str("")
      [] d = 6 /\ f = 0 ->
           IF slot <= 2 THEN Str(<<"width", "height">>[slot]) ELSE Str("")
      [] OTHER -> Str("")

\* C10: for a Graphics record with filetype 0..13, a Sound record with
\* filetype 0..19 and an XBin record, tinfoN_name returns the label of the
\* table: width, height, bpp; nothing or Sampling Rate; width, height.
C10_Labels ==
    (/\ call.op = "get"
     /\ call.arg.v \in DOMAIN TinfoSlot
     /\ record # None
     /\ \/ record.v[95] = 2 /\ record.v[96] <= 13
        \/ record.v[95] = 4 /\ record.v[96] <= 19
        \/ record.v[95] = 6 /\ record.v[96] = 0) =>
        out = TableLabel(record.v[95], record.v[96], TinfoSlot[call.arg.v])

\* C11: for a record starting with the magic, whatever its DataType and
\* FileType bytes, datatype_str, filetype_str, flags_str and
\* tinfo1_name..tinfo4_name return a str or None and never raise.
C11_NeverRaise ==
    (/\ call.op = "get"
     /\ call.arg.v \in SemanticProperties
     /\ record # None
     /\ SubSeq(record.v, 1, 5) = <<83, 65, 85, 67, 69>>) =>
        /\ ~IsRaise(out)
        /\ out.t \in {"str", "None"}

=============================================================================
